---- MODULE Spec2Model ----
(***************************************************************************)
(* Request orchestration of the movie search UI: the useDebouncedSearch    *)
(* hook (query, debounce timer, paginated search requests, cancellation)   *)
(* and the useMovieDetails hook of each card (detail fetch on hover).      *)
(*                                                                         *)
(* Time is counted in ticks of half the debounce delay (150 ms).  A due   *)
(* debounce timer runs before any further event is handled; an aborted     *)
(* call settles as a cancellation.  Texts are sequences of one-character   *)
(* strings; a nullable value is the empty sequence (null) or a one-element *)
(* sequence holding the value.                                             *)
(***************************************************************************)
EXTENDS Integers, Sequences, FiniteSets, TLC

VARIABLES
    query,               \* useState('')                       text
    results,             \* useState<IMovieSearchResponse|null> nullable response
    loading,             \* useState(false)
    error,               \* useState<string|null>               nullable string
    page,                \* useState(1)
    hasMore,             \* useState(false)
    abortControllerRef,  \* useRef<AbortController|null>: 0 = null, else the controller's number
    isInitialLoad,       \* useRef(true)
    timerPending,        \* lodash debounce: a trailing call is scheduled
    timerLeft,           \* ticks until the scheduled call runs
    lastArgs,            \* lodash debounce: argument of the most recent call
    requests,            \* the calls of omdbService.search so far, in order; controller n belongs to requests[n]
    catalog,             \* the remote: null when it may answer anything, else the total-count it holds for each text
    sinceCall,           \* history: ticks since the most recent setQuery call, capped at delay
    burst,               \* history: the setQuery calls since the last quiet period (kept when burst.on)
    page1Done,           \* history: page 1 of the current query text has completed successfully
    pagesEnded,          \* history: since the query text last changed, a search for it failed or returned a short page
    mounted,             \* the component using the hook is mounted (its effect cleanup has not run for good)
    quiet,               \* the user has stopped: no setQuery, loadMore or unmount from here on
    lastOp,              \* history: the operation that produced this state
    fetchers,            \* the useMovieDetails instances, by card: movieId, details, loading, error, abortControllerRef
    detailRequests,      \* the calls of omdbService.getDetails so far, in order; controller n belongs to detailRequests[n]
    cards,               \* the MovieCard of each instance: isHovered, hoverTimeoutRef, the pending timeouts
    detailOp,            \* history: the operation on a useMovieDetails instance that produced this state
    rating,              \* the rating prop of the StarRating of a tooltip: nullable text
    stars,               \* the stars its useMemo holds, null before the first render
    movieDetailsCache,   \* const movieDetailsCache: Record<string, IMovieDetails>, the object of each scope
    cacheOp              \* history: the useMovieCache operation that produced this state, if one did

detailVars == <<fetchers, detailRequests, detailOp, cards>>

searchVars == <<query, results, loading, error, page, hasMore, abortControllerRef,
                isInitialLoad, timerPending, timerLeft, lastArgs, requests,
                catalog, sinceCall, burst, page1Done, pagesEnded, mounted, quiet, lastOp>>

cacheVars == <<movieDetailsCache, cacheOp>>

tooltipVars == <<rating, stars>>

vars == <<searchVars, detailVars, cacheVars, tooltipVars>>

-----------------------------------------------------------------------------
(* Bounds and program constants *)

MaxReq == 3

MaxDetailReq == 2

delay == 2

PageSize == 10

\* window.setTimeout(..., 100) of handleMouseLeave, in ticks of 50 ms
HoverDelay == 2

\* the stars of a StarRating
MaxStars == 10

\* a rating is held as its number of tenths
Tenths == 10

-----------------------------------------------------------------------------
(* Values *)

Null == <<>>

Some(x) == <<x>>

SP == " "

Texts == { <<>>, <<SP>>, <<"a">>, <<"b">> }

RECURSIVE TrimStart(_)
TrimStart(s) ==
    IF s # <<>> /\ Head(s) = SP THEN TrimStart(Tail(s)) ELSE s

RECURSIVE TrimEnd(_)
TrimEnd(s) ==
    IF s # <<>> /\ s[Len(s)] = SP THEN TrimEnd(SubSeq(s, 1, Len(s) - 1)) ELSE s

Trim(s) == TrimEnd(TrimStart(s))

Truthy(s) == s # <<>>

DigitChars == <<"0", "1", "2", "3", "4", "5", "6", "7", "8", "9">>

IsDigit(c) == \E d \in 1..10 : DigitChars[d] = c

DigitVal(c) == (CHOOSE d \in 1..10 : DigitChars[d] = c) - 1

RECURSIVE ParseDigits(_, _)
ParseDigits(s, acc) ==
    IF s # <<>> /\ IsDigit(Head(s))
    THEN ParseDigits(Tail(s), acc * 10 + DigitVal(Head(s)))
    ELSE acc

\* parseInt(text, 10): the number written by the leading digits, NaN (Null) when there are none
ParseInt(s) ==
    LET t == TrimStart(s) IN
    IF t # <<>> /\ IsDigit(Head(t)) THEN Some(ParseDigits(t, 0)) ELSE Null

\* number > n in JavaScript: false when the number is NaN
GreaterThan(num, n) == num # Null /\ num[1] > n

-----------------------------------------------------------------------------
(* The remote: what a settled call of omdbService.search can deliver *)

RateLimitError == "Request limit reached!"

RemoteErrors == { Null, Some(RateLimitError), Some("Movie not found!") }

Counts == {0, 5, 10}

Totals == { <<"1", "0">>, <<"2", "5">>, <<"N", "/", "A">> }

\* err.response of an AxiosError: status (0 when there is no response) and data.Error
ErrorResponses == { <<0, Null>>, <<401, Null>>, <<401, Some("Invalid API key!")>>, <<429, Null>> }

Movie(q, p, i) == <<q, p, i>>

SearchResponse(resp, search, total, err) ==
    [Response |-> resp, Search |-> search, totalResults |-> total, Error |-> err]

Outcome(kind, data, status, dataError) ==
    [kind |-> kind, data |-> data, status |-> status, dataError |-> dataError]

NoData == SearchResponse("", <<>>, <<>>, Null)

NoOutcome == Outcome("none", NoData, 0, Null)

Cancelled == Outcome("cancel", NoData, 0, Null)

TrueResponses(q, p) ==
    { SearchResponse("True", [i \in 1..n |-> Movie(q, p, i)], t, Null) :
        n \in Counts, t \in Totals }

FalseResponses == { SearchResponse("False", <<>>, <<>>, e) : e \in RemoteErrors }

SearchTexts == { t \in Texts : Trim(t) # <<>> }

PagedTotals == { <<"5">>, <<"1", "0">>, <<"2", "5">> }

Catalogs == [SearchTexts -> PagedTotals]

Min(a, b) == IF a < b THEN a ELSE b

\* records (p-1)*10+1 .. min(p*10, T) of the T results the catalog holds for q
PageOf(q, p, total) ==
    LET T == ParseInt(total)[1]
        first == (p - 1) * PageSize + 1
        last == Min(p * PageSize, T)
    IN  SearchResponse("True",
                       [i \in 1..(IF last < first THEN 0 ELSE last - first + 1) |-> Movie(q, p, i)],
                       total, Null)

Outcomes(r) ==
    IF r.aborted
    THEN { Cancelled }
    ELSE { Outcome("resolve", d, 200, Null) :
             d \in (IF catalog = Null
                    THEN TrueResponses(r.q, r.page)
                    ELSE { PageOf(r.q, r.page, catalog[1][r.q]) }) \cup FalseResponses }
         \cup { Outcome("axiosError", NoData, e[1], e[2]) : e \in ErrorResponses }
         \cup { Outcome("otherError", NoData, 0, Null) }

Request(q, p, by) ==
    [q |-> q, page |-> p, by |-> by, aborted |-> FALSE, settled |-> FALSE]

NoRequest == [q |-> <<>>, page |-> 0, by |-> "", aborted |-> FALSE, settled |-> TRUE]

-----------------------------------------------------------------------------
(* The remote: what a settled call of omdbService.getDetails can deliver *)

Fetchers == {"card1", "card2"}

MovieIds == {"tt1", "tt2"}

DetailsResponse(resp, id, err) == [Response |-> resp, imdbID |-> id, Error |-> err]

NoDetails == DetailsResponse("", "", Null)

DetailsCancelled == Outcome("cancel", NoDetails, 0, Null)

DetailOutcomes(r) ==
    IF r.aborted
    THEN { DetailsCancelled }
    ELSE { Outcome("resolve", DetailsResponse("True", r.id, Null), 200, Null) }
         \cup { Outcome("resolve", DetailsResponse("False", "", e), 200, Null) : e \in RemoteErrors }
         \cup { Outcome("axiosError", NoDetails, e[1], e[2]) : e \in ErrorResponses }
         \cup { Outcome("otherError", NoDetails, 0, Null) }

DetailRequest(f, id) == [f |-> f, id |-> id, aborted |-> FALSE, settled |-> FALSE]

NoDetailRequest == [f |-> "", id |-> "", aborted |-> FALSE, settled |-> TRUE]

\* the state and the ref of one useMovieDetails instance, and whether its card is mounted
Fetcher(movieId, details, load, err, ref, up) ==
    [movieId |-> movieId, details |-> details, loading |-> load, error |-> err,
     abortControllerRef |-> ref, mounted |-> up]

\* the state and the ref of one MovieCard: hoverTimeoutRef says whether the ref
\* holds the id of the timeout set last; timeouts are the times left of the
\* timeouts that are set and not cleared, the one set last at the end; event,
\* sinceEnter and sinceLeave are history (the last mouse event or timeout of
\* the card, and the ticks since the last mouse-enter and mouse-leave, capped)
Card(hovered, ref, timeouts, event, sinceEnter, sinceLeave) ==
    [isHovered |-> hovered, hoverTimeoutRef |-> ref, timeouts |-> timeouts,
     event |-> event, sinceEnter |-> sinceEnter, sinceLeave |-> sinceLeave]

\* the movie prop of each card
MovieOf(f) == IF f = "card1" THEN "tt1" ELSE "tt2"

DetailOp(name, f, req, request, outcome) ==
    [name |-> name, f |-> f, req |-> req, request |-> request, outcome |-> outcome]

-----------------------------------------------------------------------------
(* useMovieCache *)

\* a useMovieCache() is called by each useMovieDetails instance
CacheUsers == Fetchers

\* where an object named movieDetailsCache could live: the module, or one call of the hook
Scopes == {"module"} \cup CacheUsers

CacheRecords == { DetailsResponse("True", id, Null) : id \in MovieIds }

EmptyCache == [k \in MovieIds |-> Null]

CacheOp(name, u, key, record, result) ==
    [name |-> name, u |-> u, key |-> key, record |-> record, result |-> result]

NoCacheOp == CacheOp("none", "", "", Null, Null)

StoreOf_PerInstance(u) == u

\* the functions of every useMovieCache() close over the one module-level object
StoreOf(u) == "module"

getFromCache(u, movieId) == movieDetailsCache[StoreOf(u)][movieId]

addToCache_KeepsFirst(u, movieId, details) ==
    movieDetailsCache' = IF getFromCache(u, movieId) = Null
                         THEN [movieDetailsCache EXCEPT ![StoreOf(u)][movieId] = Some(details)]
                         ELSE movieDetailsCache

addToCache(u, movieId, details) ==
    movieDetailsCache' = [movieDetailsCache EXCEPT ![StoreOf(u)][movieId] = Some(details)]

removeFromCache_Everything(u, movieId) ==
    movieDetailsCache' = [movieDetailsCache EXCEPT ![StoreOf(u)] = EmptyCache]

removeFromCache(u, movieId) ==
    movieDetailsCache' = [movieDetailsCache EXCEPT ![StoreOf(u)][movieId] = Null]

clearCache(u) ==
    movieDetailsCache' = [movieDetailsCache EXCEPT ![StoreOf(u)] = EmptyCache]

-----------------------------------------------------------------------------
(* History *)

Op(name, text, req, request, outcome, prevLen) ==
    [name |-> name, text |-> text, req |-> req, request |-> request,
     outcome |-> outcome, prevLen |-> prevLen]

NoBurst == [on |-> TRUE, ok |-> FALSE, allChanged |-> FALSE, texts |-> {}, reqs |-> <<>>]

Untracked == [NoBurst EXCEPT !.on = FALSE]

\* the quiet period after the calls of the burst is over and its search has run
QuietAfterBurst == burst.ok /\ sinceCall = delay /\ ~timerPending

-----------------------------------------------------------------------------
(* StarRating of MovieTooltip *)

NA == <<"N", "/", "A">>

Max(a, b) == IF a > b THEN a ELSE b

RECURSIVE LeadingDigits(_)
LeadingDigits(s) ==
    IF s # <<>> /\ IsDigit(Head(s)) THEN 1 + LeadingDigits(Tail(s)) ELSE 0

\* parseFloat(text): leading blanks are skipped, then a sign, digits, a point
\* and digits are read and the rest is ignored; NaN (Null) when no digit was
\* read.  The number is returned in tenths; the texts of the model carry at
\* most one digit after the point.
parseFloat(text) ==
    LET t == TrimStart(text)
        signed == t # <<>> /\ Head(t) \in {"-", "+"}
        u == IF signed THEN Tail(t) ELSE t
        n == LeadingDigits(u)
        rest == SubSeq(u, n + 1, Len(u))
        hasFraction == Len(rest) >= 2 /\ rest[1] = "." /\ IsDigit(rest[2])
        magnitude == ParseDigits(u, 0) * Tenths + (IF hasFraction THEN DigitVal(rest[2]) ELSE 0)
    IN  IF n = 0 /\ ~hasFraction
        THEN Null
        ELSE Some(IF signed /\ Head(t) = "-" THEN 0 - magnitude ELSE magnitude)

Clamp_None(numRating) == numRating

\* Math.min(Math.max(numRating, 0), 10)
Clamp(numRating) == Min(Max(numRating, 0), MaxStars * Tenths)

\* Math.floor(x)
Floor(x) == x \div Tenths

\* x % 1 of JavaScript, which takes the sign of x
Mod1(x) == IF x >= 0 THEN x % Tenths ELSE 0 - ((0 - x) % Tenths)

Stars(fullStars, hasHalfStar, emptyStars) ==
    [fullStars |-> fullStars, hasHalfStar |-> hasHalfStar, emptyStars |-> emptyStars]

\* the value of the useMemo of StarRating (47-69) for the prop r
StarsOf(r) ==
    IF r = Null \/ ~Truthy(r[1]) \/ r[1] = NA
    THEN Stars(0, FALSE, MaxStars)
    ELSE LET numRating == parseFloat(r[1]) IN
         IF numRating = Null
         THEN Stars(Null, FALSE, Null)
         ELSE LET clampedRating == Clamp(numRating[1])
                  fullStars == Floor(clampedRating)
                  hasHalfStar == 2 * Mod1(clampedRating) >= Tenths
                  emptyStars == MaxStars - fullStars - (IF hasHalfStar THEN 1 ELSE 0)
              IN  Stars(fullStars, hasHalfStar, emptyStars)

RECURSIVE DigitsOf(_)
DigitsOf(n) ==
    IF n < 10 THEN <<DigitChars[n + 1]>> ELSE DigitsOf(n \div 10) \o <<DigitChars[(n % 10) + 1]>>

\* the text of a rating of t tenths with one digit after the point, as the
\* remote writes an imdbRating: "7.5", "10.0", "-1.5"
RatingText(t) ==
    LET m == IF t < 0 THEN 0 - t ELSE t IN
    (IF t < 0 THEN <<"-">> ELSE <<>>) \o DigitsOf(m \div 10) \o <<".">> \o DigitsOf(m % 10)

\* the text of a whole rating without a point: "7", "10"
WholeText(n) == DigitsOf(n)

InRange == 0..(MaxStars * Tenths)

BelowRange == {0 - 15, 0 - 5, 0 - 1}

AboveRange == {101, 105, 117, 120}

\* the rating props of the model: absent, empty, "N/A", and numbers in tenths
Ratings ==
    {Null, Some(<<>>), Some(NA)}
        \cup { Some(RatingText(t)) : t \in InRange \cup BelowRange \cup AboveRange }
        \cup { Some(WholeText(n)) : n \in 0..MaxStars }

\* no tooltip is on the page
NoTooltip == rating = Null /\ stars = Null

-----------------------------------------------------------------------------
Mounted ==
    /\ quiet = FALSE
    /\ query = <<>>
    /\ results = Null
    /\ loading = FALSE
    /\ error = Null
    /\ page = 1
    /\ hasMore = FALSE
    /\ abortControllerRef = 0
    /\ isInitialLoad = TRUE
    /\ timerPending = FALSE
    /\ timerLeft = 0
    /\ lastArgs = <<>>
    /\ requests = <<>>
    /\ sinceCall = delay
    /\ page1Done = FALSE
    /\ pagesEnded = FALSE
    /\ mounted = TRUE
    /\ lastOp = Op("init", <<>>, 0, NoRequest, NoOutcome, 0)
    /\ fetchers = [f \in Fetchers |-> Fetcher(Null, Null, FALSE, Null, 0, TRUE)]
    /\ detailRequests = <<>>
    /\ detailOp = DetailOp("init", "", 0, NoDetailRequest, NoOutcome)
    /\ cards = [f \in Fetchers |-> Card(FALSE, FALSE, <<>>, "init", HoverDelay, HoverDelay)]
    /\ movieDetailsCache = [sc \in Scopes |-> EmptyCache]
    /\ cacheOp = NoCacheOp

Init == Mounted /\ burst = Untracked /\ catalog = Null /\ NoTooltip

\* a tooltip with a StarRating, before its first render
InitStars == Mounted /\ burst = Untracked /\ catalog = Null /\ rating \in Ratings /\ stars = Null

\* the same program, with the bursts of setQuery calls recorded
InitDebounce == Mounted /\ burst = NoBurst /\ catalog = Null /\ NoTooltip

\* the same program, in front of a remote that serves each text's results in pages of 10
InitPaged == Mounted /\ burst = Untracked /\ catalog \in { Some(f) : f \in Catalogs } /\ NoTooltip

-----------------------------------------------------------------------------
(* omdbService.search and the AbortController of each call *)

Abort_Nothing(reqs, c) == reqs

\* abortControllerRef.current.abort(): only a call still in flight is affected
Abort(reqs, c) ==
    IF c # 0 /\ ~reqs[c].settled THEN [reqs EXCEPT ![c].aborted = TRUE] ELSE reqs

InFlight == { c \in 1..Len(requests) : ~requests[c].settled }

IsSuccess(o) == o.kind = "resolve" /\ o.data.Response # "False"

IsCancel_Never(o) == FALSE

\* axios.isCancel(err)
IsCancel(o) == o.kind = "cancel"

IsAxiosError(o) == o.kind \in {"axiosError", "cancel"}

\* omdbService.search and omdbService.getDetails: the data is returned, any
\* rejection of the axios call is logged and thrown again
ServiceThrows(o) == o.kind # "resolve"

Catches_AxiosOnly(o) == IsAxiosError(o)

\* catch (err) of searchMovies and of fetchDetails takes whatever was thrown
Catches(o) == TRUE

\* how the promise of searchMovies, or of fetchDetails, ends when its call
\* settles with outcome o
PromiseState(o) == IF ServiceThrows(o) /\ ~Catches(o) THEN "rejected" ELSE "fulfilled"

-----------------------------------------------------------------------------
(* searchMovies *)

IsBlank(searchQuery) == Trim(searchQuery) = <<>>

IsCurrent_Always(abortController) == TRUE

IsCurrent(abortController) == abortControllerRef = abortController

ResponseFalseError_Raw(response) ==
    IF response.Error # Null /\ response.Error[1] # ""
    THEN response.Error[1]
    ELSE "No results found"

ResponseFalseError(response) ==
    IF response.Error = Some(RateLimitError)
    THEN "API rate limit reached. Please try again later."
    ELSE IF response.Error # Null /\ response.Error[1] # ""
         THEN response.Error[1]
         ELSE "No results found"

TransportError(err) ==
    IF IsAxiosError(err)
    THEN IF err.dataError # Null /\ err.dataError[1] # ""
         THEN err.dataError[1]
         ELSE IF err.status = 401
              THEN "API key is invalid or missing. Please contact support."
              ELSE IF err.status = 429
                   THEN "API rate limit reached. Please try again later."
                   ELSE "Failed to fetch movies. Please try again."
    ELSE "Failed to fetch movies. Please try again."

SearchOf(res) == IF res = Null THEN <<>> ELSE res[1].Search

NextResults_AlwaysAppend(prev, response, pageNum) ==
    Some([response EXCEPT !.Search = SearchOf(prev) \o response.Search])

NextResults_KeepsOldTotal(prev, response, pageNum) ==
    IF pageNum = 1 \/ prev = Null
    THEN Some(response)
    ELSE Some([prev[1] EXCEPT !.Search = SearchOf(prev) \o response.Search])

NextResults_Prepends(prev, response, pageNum) ==
    IF pageNum = 1
    THEN Some(response)
    ELSE Some([response EXCEPT !.Search = response.Search \o SearchOf(prev)])

NextResults(prev, response, pageNum) ==
    IF pageNum = 1
    THEN Some(response)
    ELSE Some([response EXCEPT !.Search = SearchOf(prev) \o response.Search])

ComputeHasMore_AtLeast(response, pageNum) ==
    /\ Len(response.Search) # 0
    /\ GreaterThan(ParseInt(response.totalResults), pageNum * PageSize - 1)

ComputeHasMore_TotalOnly(response, pageNum) ==
    GreaterThan(ParseInt(response.totalResults), pageNum * PageSize)

ComputeHasMore(response, pageNum) ==
    /\ Len(response.Search) # 0
    /\ GreaterThan(ParseInt(response.totalResults), pageNum * PageSize)

searchMoviesStart_NoAbort(searchQuery, pageNum, by, hm) ==
    IF IsBlank(searchQuery)
    THEN /\ results' = Null
         /\ hasMore' = FALSE
         /\ UNCHANGED <<loading, error, requests, abortControllerRef>>
    ELSE /\ requests' = Append(requests, Request(searchQuery, pageNum, by))
         /\ abortControllerRef' = Len(requests) + 1
         /\ loading' = TRUE
         /\ error' = Null
         /\ hasMore' = hm
         /\ UNCHANGED results

searchMoviesStart_KeepsError(searchQuery, pageNum, by, hm) ==
    IF IsBlank(searchQuery)
    THEN /\ results' = Null
         /\ hasMore' = FALSE
         /\ UNCHANGED <<loading, error, requests, abortControllerRef>>
    ELSE /\ requests' = Append(Abort(requests, abortControllerRef),
                               Request(searchQuery, pageNum, by))
         /\ abortControllerRef' = Len(requests) + 1
         /\ loading' = TRUE
         /\ error' = error
         /\ hasMore' = hm
         /\ UNCHANGED results

\* searchMovies up to its await; hm is the hasMore its caller has set before the call
searchMoviesStart(searchQuery, pageNum, by, hm) ==
    IF IsBlank(searchQuery)
    THEN /\ results' = Null
         /\ hasMore' = FALSE
         /\ UNCHANGED <<loading, error, requests, abortControllerRef>>
    ELSE /\ requests' = Append(Abort(requests, abortControllerRef),
                               Request(searchQuery, pageNum, by))
         /\ abortControllerRef' = Len(requests) + 1
         /\ loading' = TRUE
         /\ error' = Null
         /\ hasMore' = hm
         /\ UNCHANGED results

Issued(searchQuery) == IF IsBlank(searchQuery) THEN 0 ELSE Len(requests) + 1

searchMoviesSettled_CatchKeepsResults(c, o) ==
    LET pageNum == requests[c].page IN
    /\ requests' = [requests EXCEPT ![c] = NoRequest]
    /\ IF o.kind = "resolve"
       THEN IF IsCurrent(c)
            THEN IF o.data.Response = "False"
                 THEN /\ error' = Some(ResponseFalseError(o.data))
                      /\ results' = Null
                      /\ hasMore' = FALSE
                      /\ UNCHANGED isInitialLoad
                 ELSE /\ results' = NextResults(results, o.data, pageNum)
                      /\ isInitialLoad' = IF pageNum = 1 THEN FALSE ELSE isInitialLoad
                      /\ hasMore' = ComputeHasMore(o.data, pageNum)
                      /\ UNCHANGED error
            ELSE UNCHANGED <<error, results, hasMore, isInitialLoad>>
       ELSE IF IsCurrent(c) /\ ~IsCancel(o)
            THEN /\ error' = Some(TransportError(o))
                 /\ UNCHANGED <<results, hasMore, isInitialLoad>>
            ELSE UNCHANGED <<error, results, hasMore, isInitialLoad>>
    /\ loading' = IF IsCurrent(c) THEN FALSE ELSE loading

\* searchMovies from its await on: the call of controller c settles with outcome o
searchMoviesSettled(c, o) ==
    LET pageNum == requests[c].page IN
    /\ requests' = [requests EXCEPT ![c] = NoRequest]
    /\ IF o.kind = "resolve"
       THEN IF IsCurrent(c)
            THEN IF o.data.Response = "False"
                 THEN /\ error' = Some(ResponseFalseError(o.data))
                      /\ results' = Null
                      /\ hasMore' = FALSE
                      /\ UNCHANGED isInitialLoad
                 ELSE /\ results' = NextResults(results, o.data, pageNum)
                      /\ isInitialLoad' = IF pageNum = 1 THEN FALSE ELSE isInitialLoad
                      /\ hasMore' = ComputeHasMore(o.data, pageNum)
                      /\ UNCHANGED error
            ELSE UNCHANGED <<error, results, hasMore, isInitialLoad>>
       ELSE IF IsCurrent(c) /\ ~IsCancel(o)
            THEN /\ error' = Some(TransportError(o))
                 /\ results' = Null
                 /\ hasMore' = FALSE
                 /\ UNCHANGED isInitialLoad
            ELSE UNCHANGED <<error, results, hasMore, isInitialLoad>>
    /\ loading' = IF IsCurrent(c) THEN FALSE ELSE loading

\* the outcome is a failure of the search or a page of fewer than 10 records
EndsPages(o) ==
    /\ ~IsCancel(o)
    /\ IsSuccess(o) => Len(o.data.Search) < PageSize

Settle ==
    \E c \in InFlight : \E o \in Outcomes(requests[c]) :
        /\ ~(timerPending /\ timerLeft = 0)
        /\ searchMoviesSettled(c, o)
        /\ page1Done' = IF IsCurrent(c) /\ IsSuccess(o) /\ requests[c].page = 1
                           /\ requests[c].q = query
                        THEN TRUE ELSE page1Done
        /\ pagesEnded' = IF requests[c].q = query /\ EndsPages(o) THEN TRUE ELSE pagesEnded
        /\ burst' = IF QuietAfterBurst THEN NoBurst ELSE burst
        /\ lastOp' = Op("settle", <<>>, c, requests[c], o, Len(SearchOf(results)))
        /\ UNCHANGED <<query, page, abortControllerRef, timerPending, timerLeft,
                       lastArgs, sinceCall, mounted, catalog, quiet, detailVars, movieDetailsCache>>
        /\ cacheOp' = NoCacheOp
        /\ UNCHANGED tooltipVars

-----------------------------------------------------------------------------
(* The debounced search *)

FireDue == timerPending /\ timerLeft = 0

debouncedSearchFn_KeepsFirst(searchQuery) ==
    /\ timerPending' = TRUE
    /\ timerLeft' = delay
    /\ lastArgs' = IF timerPending THEN lastArgs ELSE searchQuery

\* debounce(debouncedSearch, delay) called with searchQuery: (re)start the window
debouncedSearchFn(searchQuery) ==
    /\ timerPending' = TRUE
    /\ timerLeft' = delay
    /\ lastArgs' = searchQuery

\* the window has elapsed: debouncedSearch(lastArgs) runs
debouncedSearch_KeepsPage ==
    /\ FireDue
    /\ Issued(lastArgs) # 0 => Len(requests) < MaxReq
    /\ page' = page
    /\ isInitialLoad' = TRUE
    /\ searchMoviesStart(lastArgs, 1, "debounce", FALSE)
    /\ timerPending' = FALSE
    /\ lastArgs' = <<>>
    /\ burst' = IF burst.ok /\ Issued(lastArgs) # 0
                THEN [burst EXCEPT !.reqs = Append(@, Request(lastArgs, 1, "debounce"))]
                ELSE burst
    /\ lastOp' = Op("fire", <<>>, Issued(lastArgs), NoRequest, NoOutcome, 0)
    /\ UNCHANGED <<query, timerLeft, sinceCall, page1Done, pagesEnded, mounted, catalog, quiet, detailVars, movieDetailsCache>>
    /\ cacheOp' = NoCacheOp
    /\ UNCHANGED tooltipVars

debouncedSearch_KeepsFlags ==
    /\ FireDue
    /\ Issued(lastArgs) # 0 => Len(requests) < MaxReq
    /\ page' = 1
    /\ isInitialLoad' = isInitialLoad
    /\ searchMoviesStart(lastArgs, 1, "debounce", hasMore)
    /\ timerPending' = FALSE
    /\ lastArgs' = <<>>
    /\ burst' = IF burst.ok /\ Issued(lastArgs) # 0
                THEN [burst EXCEPT !.reqs = Append(@, Request(lastArgs, 1, "debounce"))]
                ELSE burst
    /\ lastOp' = Op("fire", <<>>, Issued(lastArgs), NoRequest, NoOutcome, 0)
    /\ UNCHANGED <<query, timerLeft, sinceCall, page1Done, pagesEnded, mounted, catalog, quiet, detailVars, movieDetailsCache>>
    /\ cacheOp' = NoCacheOp
    /\ UNCHANGED tooltipVars

debouncedSearch ==
    /\ FireDue
    /\ Issued(lastArgs) # 0 => Len(requests) < MaxReq
    /\ page' = 1
    /\ isInitialLoad' = TRUE
    /\ searchMoviesStart(lastArgs, 1, "debounce", FALSE)
    /\ timerPending' = FALSE
    /\ lastArgs' = <<>>
    /\ burst' = IF burst.ok /\ Issued(lastArgs) # 0
                THEN [burst EXCEPT !.reqs = Append(@, Request(lastArgs, 1, "debounce"))]
                ELSE burst
    /\ lastOp' = Op("fire", <<>>, Issued(lastArgs), NoRequest, NoOutcome, 0)
    /\ UNCHANGED <<query, timerLeft, sinceCall, page1Done, pagesEnded, mounted, catalog, quiet, detailVars, movieDetailsCache>>
    /\ cacheOp' = NoCacheOp
    /\ UNCHANGED tooltipVars

Tick ==
    /\ ~FireDue
    /\ timerPending \/ (burst.on /\ sinceCall < delay)
    /\ timerLeft' = IF timerPending THEN timerLeft - 1 ELSE timerLeft
    /\ sinceCall' = IF burst.on /\ sinceCall < delay THEN sinceCall + 1 ELSE sinceCall
    /\ lastOp' = Op("tick", <<>>, 0, NoRequest, NoOutcome, 0)
    /\ UNCHANGED <<query, results, loading, error, page, hasMore, abortControllerRef,
                   isInitialLoad, timerPending, lastArgs, requests, burst, page1Done,
                   pagesEnded, mounted, catalog, quiet, detailVars, movieDetailsCache>>
    /\ cacheOp' = NoCacheOp
    /\ UNCHANGED tooltipVars

-----------------------------------------------------------------------------
(* loadMore *)

LoadMoreAllowed == ~loading /\ hasMore /\ Truthy(query) /\ ~isInitialLoad

loadMore ==
    /\ mounted
    /\ ~FireDue
    /\ IF LoadMoreAllowed
       THEN LET nextPage == page + 1 IN
            /\ Issued(query) # 0 => Len(requests) < MaxReq
            /\ page' = nextPage
            /\ searchMoviesStart(query, nextPage, "loadMore", hasMore)
            /\ lastOp' = Op("loadMore", <<>>, Issued(query), NoRequest, NoOutcome, 0)
       ELSE /\ UNCHANGED <<page, results, hasMore, loading, error, requests,
                           abortControllerRef>>
            /\ lastOp' = Op("loadMore", <<>>, 0, NoRequest, NoOutcome, 0)
    /\ burst' = IF burst.on THEN NoBurst ELSE burst
    /\ UNCHANGED <<query, isInitialLoad, timerPending, timerLeft, lastArgs,
                   sinceCall, page1Done, pagesEnded, mounted, catalog, quiet, detailVars, movieDetailsCache>>
    /\ cacheOp' = NoCacheOp
    /\ UNCHANGED tooltipVars

-----------------------------------------------------------------------------
(* setQuery and the effect on [query, debouncedSearchFn] *)

NextBurst(text) ==
    LET fresh == sinceCall = delay
        ok == (fresh \/ burst.ok) /\ ~IsBlank(text)
    IN  IF ~burst.on THEN burst
        ELSE IF ok
        THEN [on |-> TRUE,
              ok |-> TRUE,
              allChanged |-> (fresh \/ burst.allChanged) /\ text # query,
              texts |-> IF fresh THEN {text} ELSE burst.texts \cup {text},
              reqs |-> IF fresh THEN <<>> ELSE burst.reqs]
        ELSE NoBurst

setQuery(text) ==
    /\ mounted
    /\ ~FireDue
    /\ query' = text
    /\ IF text = query
       THEN UNCHANGED <<results, page, hasMore, isInitialLoad, timerPending,
                        timerLeft, lastArgs, requests, page1Done, pagesEnded>>
       ELSE /\ requests' = Abort(requests, abortControllerRef)
            /\ page1Done' = FALSE
            /\ pagesEnded' = FALSE
            /\ IF Truthy(text)
               THEN /\ debouncedSearchFn(text)
                    /\ UNCHANGED <<results, page, hasMore, isInitialLoad>>
               ELSE /\ results' = Null
                    /\ page' = 1
                    /\ hasMore' = FALSE
                    /\ isInitialLoad' = TRUE
                    /\ UNCHANGED <<timerPending, timerLeft, lastArgs>>
    /\ sinceCall' = IF burst.on THEN 0 ELSE sinceCall
    /\ burst' = NextBurst(text)
    /\ lastOp' = Op("setQuery", text, 0, NoRequest, NoOutcome, 0)
    /\ UNCHANGED <<loading, error, abortControllerRef, mounted, catalog, quiet, detailVars, movieDetailsCache>>
    /\ cacheOp' = NoCacheOp
    /\ UNCHANGED tooltipVars

SetQuery == \E text \in Texts : setQuery(text)

-----------------------------------------------------------------------------
(* Teardown: the component unmounts and the cleanup of the effect runs.    *)
(* The cleanup aborts the current controller and nothing else: the lodash  *)
(* timer keeps running and the calls in flight still settle.  The writes   *)
(* the code makes afterwards are kept as written; no user event (setQuery, *)
(* loadMore) reaches the hook any more.                                    *)

Unmount ==
    /\ mounted
    /\ ~FireDue
    /\ mounted' = FALSE
    /\ requests' = Abort(requests, abortControllerRef)
    /\ burst' = IF burst.on THEN NoBurst ELSE burst
    /\ lastOp' = Op("unmount", <<>>, 0, NoRequest, NoOutcome, 0)
    /\ UNCHANGED <<query, results, loading, error, page, hasMore, abortControllerRef,
                   isInitialLoad, timerPending, timerLeft, lastArgs, sinceCall,
                   page1Done, pagesEnded, catalog, quiet, detailVars, movieDetailsCache>>
    /\ cacheOp' = NoCacheOp
    /\ UNCHANGED tooltipVars

-----------------------------------------------------------------------------
(* The user stops.  The setQuery that has just changed the query to a       *)
(* non-blank text is the last user event: no setQuery, loadMore or unmount  *)
(* follows.  The search it scheduled must still be able to issue its call.  *)

Stop ==
    /\ mounted /\ ~quiet
    /\ lastOp.name = "setQuery" /\ lastOp.text = query
    /\ ~IsBlank(query)
    /\ timerPending
    /\ ~page1Done /\ ~pagesEnded
    /\ \A c \in InFlight : requests[c].aborted
    /\ Len(requests) < MaxReq
    /\ quiet' = TRUE
    /\ UNCHANGED <<query, results, loading, error, page, hasMore, abortControllerRef,
                   isInitialLoad, timerPending, timerLeft, lastArgs, requests, catalog,
                   sinceCall, burst, page1Done, pagesEnded, mounted, lastOp,
                   detailVars, cacheVars, tooltipVars>>

-----------------------------------------------------------------------------
(* useMovieDetails: fetchDetails *)

DetailsInFlight == { c \in 1..Len(detailRequests) : ~detailRequests[c].settled }

DetailsFalseError_SearchFallback(response) ==
    IF response.Error = Some(RateLimitError)
    THEN "API rate limit reached. Please try again later."
    ELSE IF response.Error # Null /\ response.Error[1] # ""
         THEN response.Error[1]
         ELSE "No results found"

DetailsFalseError(response) ==
    IF response.Error = Some(RateLimitError)
    THEN "API rate limit reached. Please try again later."
    ELSE IF response.Error # Null /\ response.Error[1] # ""
         THEN response.Error[1]
         ELSE "Failed to fetch movie details"

fetchDetailsStart_NoLoading(h, c) ==
    [h EXCEPT !.abortControllerRef = c, !.error = Null]

\* fetchDetails up to its await, on the hook state h; c is the new controller
fetchDetailsStart(h, c) ==
    [h EXCEPT !.abortControllerRef = c, !.loading = TRUE, !.error = Null]

AbortDetails_OneRefForAll(reqs, h) ==
    [c \in DOMAIN reqs |-> IF reqs[c].settled THEN reqs[c] ELSE [reqs[c] EXCEPT !.aborted = TRUE]]

\* abortControllerRef.current.abort() of instance h: the ref is the useRef of
\* this instance
AbortDetails(reqs, h) == Abort(reqs, h.abortControllerRef)

IsCurrentController_Always(h, c) == TRUE

\* abortControllerRef.current === abortController
IsCurrentController(h, c) == h.abortControllerRef = c

\* fetchDetails from its await on: the call of controller c settles with outcome o
fetchDetailsSettled(h, c, o) ==
    LET current == IsCurrentController(h, c)
        h1 == IF o.kind = "resolve"
              THEN IF current
                   THEN IF o.data.Response = "False"
                        THEN [h EXCEPT !.error = Some(DetailsFalseError(o.data)),
                                       !.details = Null]
                        ELSE [h EXCEPT !.details = Some(o.data)]
                   ELSE h
              ELSE IF current /\ ~IsCancel(o)
                   THEN [h EXCEPT !.error = Some("Failed to fetch movie details. Please try again."),
                                  !.details = Null]
                   ELSE h
    IN  IF current THEN [h1 EXCEPT !.loading = FALSE] ELSE h1

CacheAfterFetch_Stores(cache, r, o) ==
    IF o.kind = "resolve" /\ o.data.Response = "True"
    THEN [cache EXCEPT !["module"][r.id] = Some(o.data)]
    ELSE cache

\* the cache after the call for request r settled with outcome o: addToCache
\* and getFromCache are taken from useMovieCache() but fetchDetails calls neither
CacheAfterFetch(cache, r, o) == cache

SettleDetails ==
    \E c \in DetailsInFlight : \E o \in DetailOutcomes(detailRequests[c]) :
        LET f == detailRequests[c].f IN
        /\ fetchers' = [fetchers EXCEPT ![f] = fetchDetailsSettled(@, c, o)]
        /\ detailRequests' = [detailRequests EXCEPT ![c] = NoDetailRequest]
        /\ detailOp' = DetailOp("settle", f, c, detailRequests[c], o)
        /\ movieDetailsCache' = CacheAfterFetch(movieDetailsCache, detailRequests[c], o)
        /\ UNCHANGED <<searchVars, cards>>
        /\ cacheOp' = NoCacheOp
        /\ UNCHANGED tooltipVars

-----------------------------------------------------------------------------
(* useMovieDetails: the effect on [movieId, fetchDetails] *)

NoMovieId_KeepsState(h) == h

\* the else branch of the effect: setDetails(null); setError(null)
NoMovieId(h) == [h EXCEPT !.details = Null, !.error = Null]

\* the card of instance f renders with movieId m (isHovered ? movie.imdbID : null)
setMovieId(f, m) ==
    LET h == fetchers[f]
        cleaned == AbortDetails(detailRequests, h)
    IN  /\ h.mounted
        /\ IF m = h.movieId
           THEN /\ UNCHANGED <<fetchers, detailRequests>>
                /\ detailOp' = DetailOp("setMovieId", f, 0, NoDetailRequest, NoOutcome)
           ELSE IF m # Null /\ m[1] # ""
                THEN /\ Len(detailRequests) < MaxDetailReq
                     /\ detailRequests' = Append(AbortDetails(cleaned, h),
                                                 DetailRequest(f, m[1]))
                     /\ fetchers' = [fetchers EXCEPT ![f] =
                            fetchDetailsStart([h EXCEPT !.movieId = m], Len(detailRequests) + 1)]
                     /\ detailOp' = DetailOp("setMovieId", f, Len(detailRequests) + 1,
                                             NoDetailRequest, NoOutcome)
                ELSE /\ detailRequests' = cleaned
                     /\ fetchers' = [fetchers EXCEPT ![f] =
                            NoMovieId([h EXCEPT !.movieId = m])]
                     /\ detailOp' = DetailOp("setMovieId", f, 0, NoDetailRequest, NoOutcome)
        /\ UNCHANGED <<searchVars, movieDetailsCache>>
        /\ cacheOp' = NoCacheOp
        /\ UNCHANGED tooltipVars

SetMovieId ==
    \E f \in Fetchers : \E m \in {Null} \cup { Some(id) : id \in MovieIds } :
        setMovieId(f, m) /\ UNCHANGED cards

\* the card of instance f unmounts: the cleanup of the effect runs
UnmountDetails ==
    \E f \in Fetchers :
        /\ fetchers[f].mounted
        /\ fetchers' = [fetchers EXCEPT ![f].mounted = FALSE]
        /\ detailRequests' = AbortDetails(detailRequests, fetchers[f])
        /\ detailOp' = DetailOp("unmount", f, 0, NoDetailRequest, NoOutcome)
        /\ UNCHANGED <<searchVars, movieDetailsCache, cards>>
        /\ cacheOp' = NoCacheOp
        /\ UNCHANGED tooltipVars

-----------------------------------------------------------------------------
(* MovieCard: the hover handlers and useMovieDetails(isHovered ? id : null) *)

\* the movieId the card passes to useMovieDetails
KeyOf(f, hovered) == IF hovered THEN Some(MovieOf(f)) ELSE Null

ClearTimeout_Nothing(c) == c.timeouts

\* if (hoverTimeoutRef.current) window.clearTimeout(hoverTimeoutRef.current)
ClearTimeout(c) ==
    IF c.hoverTimeoutRef
    THEN SubSeq(c.timeouts, 1, Len(c.timeouts) - 1)
    ELSE c.timeouts

handleMouseEnter(f) ==
    LET c == cards[f] IN
    /\ cards' = [cards EXCEPT ![f] = Card(TRUE, FALSE, ClearTimeout(c), "enter",
                                          0, c.sinceLeave)]
    /\ setMovieId(f, KeyOf(f, TRUE))

handleMouseLeave(f) ==
    LET c == cards[f] IN
    /\ fetchers[f].mounted
    /\ cards' = [cards EXCEPT ![f] = Card(c.isHovered, TRUE,
                                          Append(ClearTimeout(c), HoverDelay), "leave",
                                          c.sinceEnter, 0)]
    /\ UNCHANGED <<searchVars, fetchers, detailRequests, detailOp, cacheVars, tooltipVars>>

\* a timeout of the card is due and its callback runs:
\* setIsHovered(false); hoverTimeoutRef.current = null
hoverTimeout(f) ==
    LET c == cards[f] IN
    \E i \in 1..Len(c.timeouts) :
        /\ c.timeouts[i] = 0
        /\ cards' = [cards EXCEPT ![f] =
               Card(FALSE, FALSE,
                    SubSeq(c.timeouts, 1, i - 1) \o SubSeq(c.timeouts, i + 1, Len(c.timeouts)),
                    "timeout", c.sinceEnter, c.sinceLeave)]
        /\ setMovieId(f, KeyOf(f, FALSE))

MouseEnter == \E f \in Fetchers : handleMouseEnter(f)

MouseLeave == \E f \in Fetchers : handleMouseLeave(f)

HoverTimeout == \E f \in Fetchers : hoverTimeout(f)

TimeoutDue == \E f \in Fetchers : \E i \in 1..Len(cards[f].timeouts) : cards[f].timeouts[i] = 0

\* 50 ms pass; a due timeout runs before more time passes
HoverTick ==
    /\ ~TimeoutDue
    /\ cards' = [f \in Fetchers |->
           [cards[f] EXCEPT !.timeouts = [i \in 1..Len(@) |-> @[i] - 1],
                            !.sinceEnter = Min(@ + 1, HoverDelay),
                            !.sinceLeave = Min(@ + 1, HoverDelay)]]
    /\ cards' # cards
    /\ UNCHANGED <<searchVars, fetchers, detailRequests, detailOp, cacheVars, tooltipVars>>

-----------------------------------------------------------------------------
(* The callers of useMovieCache *)

GetFromCache ==
    \E u \in CacheUsers : \E k \in MovieIds :
        /\ cacheOp' = CacheOp("get", u, k, Null, getFromCache(u, k))
        /\ UNCHANGED tooltipVars
        /\ UNCHANGED <<searchVars, detailVars, movieDetailsCache>>

AddToCache ==
    \E u \in CacheUsers : \E k \in MovieIds : \E r \in CacheRecords :
        /\ addToCache(u, k, r)
        /\ cacheOp' = CacheOp("add", u, k, Some(r), Null)
        /\ UNCHANGED tooltipVars
        /\ UNCHANGED <<searchVars, detailVars>>

RemoveFromCache ==
    \E u \in CacheUsers : \E k \in MovieIds :
        /\ removeFromCache(u, k)
        /\ cacheOp' = CacheOp("remove", u, k, Null, Null)
        /\ UNCHANGED tooltipVars
        /\ UNCHANGED <<searchVars, detailVars>>

ClearCache ==
    \E u \in CacheUsers :
        /\ clearCache(u)
        /\ cacheOp' = CacheOp("clear", u, "", Null, Null)
        /\ UNCHANGED tooltipVars
        /\ UNCHANGED <<searchVars, detailVars>>

-----------------------------------------------------------------------------
Next ==
    \/ SetQuery
    \/ Tick
    \/ debouncedSearch
    \/ loadMore
    \/ Settle
    \/ Unmount

Spec == Init /\ [][Next]_vars

SpecDebounce == InitDebounce /\ [][Next]_vars

SpecPaged == InitPaged /\ [][Next]_vars

(* The mounted hook in front of the paging remote, with a user who stops at *)
(* some point.  The browser runs a due timer and every call of              *)
(* omdbService.search settles, so the timer steps and the settlements are   *)
(* weakly fair; the user's steps are not.                                   *)
NextQuiet ==
    \/ ~quiet /\ SetQuery
    \/ ~quiet /\ loadMore
    \/ Stop
    \/ Tick
    \/ debouncedSearch
    \/ Settle

\* the remote holds 25 results for "a", enough for loadMore, and any of the
\* totals for the other texts
InitQuiet ==
    /\ Mounted
    /\ burst = Untracked
    /\ catalog \in { Some(f) : f \in { g \in Catalogs : g[<<"a">>] = <<"2", "5">> } }
    /\ NoTooltip

SpecQuiet ==
    /\ InitQuiet
    /\ [][NextQuiet]_vars
    /\ WF_vars(Tick)
    /\ WF_vars(debouncedSearch)
    /\ WF_vars(Settle)

NextDetails ==
    \/ SetMovieId
    \/ SettleDetails
    \/ UnmountDetails

\* the useMovieDetails instances of the cards, on their own
SpecDetails == Init /\ [][NextDetails]_vars

(* The cards under the mouse: the movieId of each useMovieDetails is what   *)
(* its card's hover state makes it.  The cards stay mounted.                *)
NextHover ==
    \/ MouseEnter
    \/ MouseLeave
    \/ HoverTimeout
    \/ HoverTick
    \/ SettleDetails

SpecHover == Init /\ [][NextHover]_vars

(* The StarRating of a tooltip: every rating text of the model is rendered,  *)
(* and re-rendered when the prop changes.                                   *)

\* the first render computes the stars
StarRatingRender ==
    /\ stars = Null
    /\ stars' = Some(StarsOf(rating))
    /\ UNCHANGED <<searchVars, detailVars, cacheVars, rating>>

\* the prop changes: the useMemo recomputes the stars ([rating])
SetRating ==
    /\ stars # Null
    /\ \E r \in Ratings \ {rating} :
          /\ rating' = r
          /\ stars' = Some(StarsOf(r))
    /\ UNCHANGED <<searchVars, detailVars, cacheVars>>

NextStars == StarRatingRender \/ SetRating

SpecStars == InitStars /\ [][NextStars]_vars

(* The page holds one useDebouncedSearch and the useMovieDetails of its     *)
(* cards.  The two hooks share no variable: a step of one neither reads nor *)
(* writes the state of the other, so the behaviours of the page are the     *)
(* interleavings of theirs.  SpecPage follows the page one hook at a time.  *)
SearchUntouched == lastOp.name = "init"

DetailsUntouched == detailOp.name = "init"

NextPage ==
    \/ DetailsUntouched /\ SetQuery
    \/ DetailsUntouched /\ Tick
    \/ DetailsUntouched /\ debouncedSearch
    \/ DetailsUntouched /\ loadMore
    \/ DetailsUntouched /\ Settle
    \/ DetailsUntouched /\ Unmount
    \/ SearchUntouched /\ SetMovieId
    \/ SearchUntouched /\ SettleDetails
    \/ SearchUntouched /\ UnmountDetails

SpecPage == Init /\ [][NextPage]_vars

(* The two hooks side by side.  SpecDomains lets one hook run up to a state *)
(* with its calls in flight and then lets the other hook take every step it *)
(* can take, in both orders.                                                *)

\* the first search call, for "a", is in flight, just issued
SearchProbe ==
    /\ lastOp.name = "fire" /\ lastOp.req = 1
    /\ Len(requests) = 1
    /\ query = <<"a">> /\ requests[1].q = <<"a">>
    /\ ~timerPending
    /\ ~requests[1].settled /\ ~requests[1].aborted

\* card1 and card2 have one call in flight each, just issued
DetailsProbe ==
    /\ detailOp.name = "setMovieId" /\ detailOp.req = Len(detailRequests)
    /\ fetchers["card1"].abortControllerRef = 1 /\ fetchers["card2"].abortControllerRef = 2
    /\ fetchers["card1"].movieId = Some("tt1") /\ fetchers["card2"].movieId = Some("tt2")
    /\ \A c \in 1..2 : ~detailRequests[c].settled /\ ~detailRequests[c].aborted

SearchMayStep == DetailsUntouched \/ DetailsProbe

DetailsMayStep == SearchUntouched \/ SearchProbe

NextDomains ==
    \/ SearchMayStep /\ SetQuery
    \/ SearchMayStep /\ Tick
    \/ SearchMayStep /\ debouncedSearch
    \/ SearchMayStep /\ loadMore
    \/ SearchMayStep /\ Settle
    \/ SearchMayStep /\ Unmount
    \/ DetailsMayStep /\ SetMovieId
    \/ DetailsMayStep /\ SettleDetails
    \/ DetailsMayStep /\ UnmountDetails

SpecDomains == Init /\ [][NextDomains]_vars

(* The cards and the cache they share.  useMovieDetails never calls the     *)
(* cache and the cache never calls a hook, so the order between a cache     *)
(* operation and a step of a card does not matter: SpecCards lets the       *)
(* callers work on the cache first and the cards act on what they left.     *)
NextCards ==
    \/ DetailsUntouched /\ GetFromCache
    \/ DetailsUntouched /\ AddToCache
    \/ DetailsUntouched /\ RemoveFromCache
    \/ DetailsUntouched /\ ClearCache
    \/ SetMovieId
    \/ SettleDetails
    \/ UnmountDetails

SpecCards == Init /\ [][NextCards]_vars

-----------------------------------------------------------------------------
(* Properties *)

\* C1 as stated: after a burst of setQuery calls with non-blank texts, each
\* less than the delay after the previous one, and a quiet period of the
\* delay, exactly one search request has been issued since the burst began,
\* for page 1 of the last text.
C1_AsClaimed ==
    QuietAfterBurst => burst.reqs = <<Request(query, 1, "debounce")>>

\* C1 amended: the same, for a burst in which every call changed the query
\* text.
C1_Debounce ==
    (QuietAfterBurst /\ burst.allChanged)
        => burst.reqs = <<Request(query, 1, "debounce")>>

C1_Witness ==
    /\ QuietAfterBurst
    /\ burst.allChanged
    /\ {<<"a">>, <<"b">>} \subseteq burst.texts
    /\ burst.reqs = <<Request(query, 1, "debounce")>>

-----------------------------------------------------------------------------
\* The step that led to this state settled the call of the current controller
\* (abortControllerRef is not changed by a settlement).
SettledCurrent == lastOp.name = "settle" /\ abortControllerRef = lastOp.req

SettledStale == lastOp.name = "settle" /\ abortControllerRef # lastOp.req

\* C2: the settlement of a superseded search call changes none of results,
\* error, hasMore and loading; the settlement of the current call ends
\* loading and leaves the outcome of that call only (its total-count and no
\* error on success, no results and an error on failure).
C2_StaleSettlementIgnored ==
    [][ /\ SettledStale' => UNCHANGED <<results, error, hasMore, loading>>
        /\ (SettledCurrent' /\ ~IsCancel(lastOp'.outcome)) =>
              /\ loading' = FALSE
              /\ IF IsSuccess(lastOp'.outcome)
                 THEN /\ results' # Null
                      /\ results'[1].totalResults = lastOp'.outcome.data.totalResults
                      /\ error' = Null
                 ELSE results' = Null /\ error' # Null /\ hasMore' = FALSE
      ]_vars

\* a first call was superseded twice and settles while the third is in flight
C2_Witness ==
    /\ SettledStale
    /\ lastOp.req = 1
    /\ abortControllerRef = 3
    /\ abortControllerRef \in InFlight
    /\ loading

\* C3: in every state all records of the result set come from requests for
\* one single query text.
C3_SingleQueryResults ==
    \A i, j \in DOMAIN SearchOf(results) :
        SearchOf(results)[i][1] = SearchOf(results)[j][1]

\* C4: as long as page 1 of the current query has not completed, loadMore
\* issues no request and leaves page unchanged.
C4_LoadMoreWaitsForPage1 ==
    [][ (lastOp'.name = "loadMore" /\ ~page1Done)
            => (requests' = requests /\ page' = page) ]_vars

\* C5: when hasMore is false, or loading is true, or the query is blank,
\* loadMore issues no request and leaves page, results, error, hasMore and
\* loading unchanged.
C5_LoadMoreGuards ==
    [][ (lastOp'.name = "loadMore" /\ (~hasMore \/ loading \/ IsBlank(query)))
            => (requests' = requests
                /\ UNCHANGED <<page, results, error, hasMore, loading>>) ]_vars

\* C6: when the current page-1 search completes successfully the result set
\* is exactly that response.
C6_Page1Replaces ==
    [][ (SettledCurrent' /\ IsSuccess(lastOp'.outcome) /\ lastOp'.request.page = 1)
            => /\ results' = Some(lastOp'.outcome.data)
               /\ SearchOf(results') = lastOp'.outcome.data.Search ]_vars

\* page 1 of a second text completed while records of the first were held
C6_Witness ==
    /\ SettledCurrent
    /\ IsSuccess(lastOp.outcome)
    /\ lastOp.request.page = 1
    /\ lastOp.request.q = <<"b">>
    /\ lastOp.prevLen > 0
    /\ Len(SearchOf(results)) > 0
    /\ \A i \in DOMAIN SearchOf(results) : SearchOf(results)[i][1] = <<"b">>

\* C7: when the current search for a page > 1 completes successfully the
\* record sequence becomes the previous one followed by the new records,
\* and the total-count is that of the new response.
C7_LaterPageAppends ==
    [][ (SettledCurrent' /\ IsSuccess(lastOp'.outcome) /\ lastOp'.request.page > 1)
            => /\ SearchOf(results') = SearchOf(results) \o lastOp'.outcome.data.Search
               /\ Len(SearchOf(results')) =
                      Len(SearchOf(results)) + Len(lastOp'.outcome.data.Search)
               /\ results'[1].totalResults = lastOp'.outcome.data.totalResults ]_vars

\* page 2 with a different total-count was appended to a non-empty page 1
C7_Witness ==
    /\ SettledCurrent
    /\ IsSuccess(lastOp.outcome)
    /\ lastOp.request.page = 2
    /\ lastOp.prevLen = 10
    /\ Len(SearchOf(results)) = 15
    /\ results[1].totalResults = <<"1", "0">>

\* C8: right after the current search for page p completes successfully,
\* hasMore holds exactly when the response has at least one record and its
\* total-count exceeds p * 10.
C8_HasMore ==
    [][ (SettledCurrent' /\ IsSuccess(lastOp'.outcome)) =>
          LET response == lastOp'.outcome.data
              p == lastOp'.request.page
              total == ParseInt(response.totalResults)
          IN  /\ hasMore' <=> (Len(response.Search) >= 1
                                /\ total # Null /\ total[1] > p * 10)
              /\ (total # Null /\ total[1] <= p * 10) => ~hasMore'
              /\ Len(response.Search) = 0 => ~hasMore' ]_vars

\* a full first page whose total-count is exactly 10: no more pages
C8_Witness ==
    /\ SettledCurrent
    /\ IsSuccess(lastOp.outcome)
    /\ lastOp.request.page = 1
    /\ Len(lastOp.outcome.data.Search) = 10
    /\ lastOp.outcome.data.totalResults = <<"1", "0">>
    /\ ~hasMore

\* C9: while the query is empty no search request is issued.
C9_NoRequestWhileEmpty ==
    (lastOp.name \in {"fire", "loadMore"} /\ lastOp.req # 0) => query # <<>>

\* C10: after setQuery(text) the query is text, and when text is empty the
\* result set is null, page is 1 and hasMore is false.
C10_SetQuery ==
    lastOp.name = "setQuery" =>
        /\ query = lastOp.text
        /\ lastOp.text = <<>> => (results = Null /\ page = 1 /\ hasMore = FALSE)

-----------------------------------------------------------------------------
\* the search calls that are in flight and whose controller has not been aborted
Outstanding == { c \in InFlight : ~requests[c].aborted }

\* C11: in every state where the orchestrator is torn down or the query is
\* blank, no un-cancelled search request is outstanding.
C11_NoneOutstandingWhenDown ==
    (~mounted \/ IsBlank(query)) => Outstanding = {}

\* C12: at most one un-cancelled search request is outstanding at any time,
\* and every call in flight other than the most recently issued one has been
\* aborted.
C12_AtMostOneOutstanding ==
    /\ Cardinality(Outstanding) <= 1
    /\ \A c \in InFlight : c # Len(requests) => requests[c].aborted

\* the debounced search fired while a loadMore request was in flight and
\* not yet aborted: issuing the new request aborted it
C12_Witness ==
    /\ lastOp.name = "fire"
    /\ lastOp.req = 3
    /\ 2 \in InFlight
    /\ requests[2].by = "loadMore"
    /\ requests[2].aborted
    /\ Outstanding = {3}

\* C13: once a search for the current query text has failed or returned
\* fewer than 10 records, loadMore issues no request until the query text
\* changes.
C13_NoPageAfterEnd ==
    [][ (pagesEnded /\ lastOp'.name = "loadMore") => requests' = requests ]_vars

-----------------------------------------------------------------------------
(* In front of a remote that pages consistently (SpecPaged) *)

TotalOf(res) == ParseInt(res[1].totalResults)

\* C14: whenever the result set is non-null, the number of accumulated
\* records does not exceed its total-count.
C14_LengthWithinTotal ==
    results # Null =>
        /\ TotalOf(results) # Null
        /\ Len(SearchOf(results)) <= TotalOf(results)[1]

\* the first n results the remote holds for q, in order
RecordsUpTo(q, n) ==
    [j \in 1..n |-> Movie(q, ((j - 1) \div PageSize) + 1, ((j - 1) % PageSize) + 1)]

\* C15: when page 1 of the current query has completed and then loadMore
\* calls have completed up to page k, the accumulated sequence is the first
\* min(10k, T) results of the query in order, and hasMore = (T > 10k), T
\* being the number of results the remote holds for the query.
C15_Pagination ==
    (/\ catalog # Null
     /\ SettledCurrent
     /\ IsSuccess(lastOp.outcome)
     /\ page1Done
     /\ lastOp.request.q = query) =>
        LET k == lastOp.request.page
            T == ParseInt(catalog[1][query])[1]
        IN  /\ SearchOf(results) = RecordsUpTo(query, Min(PageSize * k, T))
            /\ Len(SearchOf(results)) = Min(PageSize * k, T)
            /\ hasMore = (T > PageSize * k)

\* 25 results: 10 and hasMore after page 1, 20 and hasMore after one
\* loadMore, all 25 and no more after the second
C15_Witness ==
    /\ catalog # Null
    /\ SettledCurrent
    /\ IsSuccess(lastOp.outcome)
    /\ page1Done
    /\ lastOp.request.q = query
    /\ lastOp.request.page = 3
    /\ lastOp.prevLen = 20
    /\ Len(SearchOf(results)) = 25
    /\ ~hasMore

-----------------------------------------------------------------------------
\* the outcome is a failure other than a cancellation
IsFailure(o) == o.kind # "none" /\ ~IsSuccess(o) /\ ~IsCancel(o)

\* C16: right after the current search failed (Response "False" or a
\* transport error other than a cancellation) the result set is null,
\* hasMore is false, error is a message and loading is false.
C16_FailureLeavesConsistentState ==
    (SettledCurrent /\ IsFailure(lastOp.outcome)) =>
        /\ results = Null
        /\ hasMore = FALSE
        /\ error # Null
        /\ error[1] # ""
        /\ loading = FALSE

\* page 2 failed while a page of records was held and hasMore was true
C16_Witness ==
    /\ SettledCurrent
    /\ IsFailure(lastOp.outcome)
    /\ lastOp.request.page = 2
    /\ lastOp.prevLen = 10
    /\ results = Null
    /\ ~hasMore

\* C17: right after the current search failed at transport level (not by
\* cancellation), error is the credentials message when the HTTP status is
\* 401, the rate-limit message when it is 429, and the generic retry message
\* otherwise, whatever the response body holds.
C17_TransportMessages ==
    (SettledCurrent /\ lastOp.outcome.kind \in {"axiosError", "otherError"}) =>
        error = Some(IF lastOp.outcome.status = 401
                     THEN "API key is invalid or missing. Please contact support."
                     ELSE IF lastOp.outcome.status = 429
                          THEN "API rate limit reached. Please try again later."
                          ELSE "Failed to fetch movies. Please try again.")

-----------------------------------------------------------------------------
(* Both paths (SpecPage) *)

\* the step that led to this state settled the call of the current controller
\* of a useMovieDetails instance
DetailSettledCurrent ==
    detailOp.name = "settle" /\ fetchers[detailOp.f].abortControllerRef = detailOp.req

RateLimitMessage == "API rate limit reached. Please try again later."

\* what the claim asks of the message shown for the Error e of a Response
\* "False" body
SpecialCased(e, message) ==
    IF e = Some(RateLimitError)
    THEN message = Some(RateLimitMessage) /\ message # e
    ELSE message # Null /\ message # Some(RateLimitMessage)

\* C18: on the search path and on the detail path, right after the current
\* call resolved with Response "False", error is the fixed rate-limit
\* message (not the raw Error) when Error is "Request limit reached!", and a
\* different message for every other Error.
C18_RateLimitSpecialCased ==
    /\ (SettledCurrent /\ lastOp.outcome.kind = "resolve"
           /\ lastOp.outcome.data.Response = "False")
          => SpecialCased(lastOp.outcome.data.Error, error)
    /\ (DetailSettledCurrent /\ detailOp.outcome.kind = "resolve"
           /\ detailOp.outcome.data.Response = "False")
          => SpecialCased(detailOp.outcome.data.Error, fetchers[detailOp.f].error)

\* a detail fetch was answered with the rate-limit body
C18_Witness ==
    /\ DetailSettledCurrent
    /\ detailOp.outcome.kind = "resolve"
    /\ detailOp.outcome.data.Response = "False"
    /\ detailOp.outcome.data.Error = Some(RateLimitError)
    /\ fetchers[detailOp.f].error = Some(RateLimitMessage)
    /\ fetchers[detailOp.f].details = Null

\* C19: the settlement of a cancelled request, of the search or of a detail
\* fetch, never sets error to a message and never clears results or details:
\* it leaves error, results and details as they are.
C19_CancellationNotSurfaced ==
    [][ /\ (lastOp'.name = "settle" /\ lastOp'.request.aborted)
              => UNCHANGED <<error, results, hasMore>>
        /\ (detailOp'.name = "settle" /\ detailOp'.request.aborted)
              => /\ fetchers'[detailOp'.f].error = fetchers[detailOp'.f].error
                 /\ fetchers'[detailOp'.f].details = fetchers[detailOp'.f].details
      ]_vars

\* the search call aborted by the teardown settled while its controller was
\* still the current one, with records held
C19_Witness ==
    /\ SettledCurrent
    /\ lastOp.request.aborted
    /\ lastOp.outcome.kind = "cancel"
    /\ ~mounted
    /\ results # Null
    /\ error = Null
    /\ ~loading

\* C20: whatever the outcome of the network call (success, Response "False",
\* transport error, cancellation), the promise of searchMovies and that of
\* fetchDetails are fulfilled, and a failure of the current call shows as a
\* non-null error.
C20_NoFailureEscapes ==
    /\ lastOp.name = "settle" =>
          /\ PromiseState(lastOp.outcome) = "fulfilled"
          /\ (SettledCurrent /\ IsFailure(lastOp.outcome)) => error # Null
    /\ detailOp.name = "settle" =>
          /\ PromiseState(detailOp.outcome) = "fulfilled"
          /\ (DetailSettledCurrent /\ IsFailure(detailOp.outcome))
                => fetchers[detailOp.f].error # Null

\* a detail fetch was rejected with something that is not an axios error
C20_Witness ==
    /\ DetailSettledCurrent
    /\ detailOp.outcome.kind = "otherError"
    /\ ServiceThrows(detailOp.outcome)
    /\ PromiseState(detailOp.outcome) = "fulfilled"
    /\ fetchers[detailOp.f].error = Some("Failed to fetch movie details. Please try again.")

-----------------------------------------------------------------------------
(* The cards and the cache (SpecCards) *)

\* the step to the next state gave the instance of card f a new, non-null key
Fetches(f) ==
    /\ detailOp'.name = "setMovieId"
    /\ detailOp'.f = f
    /\ fetchers'[f].movieId # fetchers[f].movieId
    /\ fetchers'[f].movieId # Null

\* C21: a fetch for a key whose record is in the cache yields that record
\* and issues no network request.
C21_CacheConsultedFirst ==
    [][ \A f \in Fetchers :
          (Fetches(f) /\ getFromCache(f, fetchers'[f].movieId[1]) # Null)
             => /\ Len(detailRequests') = Len(detailRequests)
                /\ fetchers'[f].details = getFromCache(f, fetchers'[f].movieId[1])
      ]_vars

-----------------------------------------------------------------------------
(* The cards (SpecDetails) *)

\* the detail calls of card f that are in flight and not aborted
DetailsOutstanding(f) ==
    { c \in DetailsInFlight : detailRequests[c].f = f /\ ~detailRequests[c].aborted }

\* C22: for each useMovieDetails instance at most one un-cancelled detail
\* request is outstanding, the one of its current controller; every earlier
\* call of the instance still in flight has been aborted.
C22_OneOutstandingPerFetcher ==
    \A f \in Fetchers :
        /\ Cardinality(DetailsOutstanding(f)) <= 1
        /\ DetailsOutstanding(f) \subseteq {fetchers[f].abortControllerRef}

\* the requests of two cards are outstanding at the same time
C22_Witness ==
    /\ DetailsOutstanding("card1") = {1}
    /\ DetailsOutstanding("card2") = {2}
    /\ fetchers["card1"].loading
    /\ fetchers["card2"].loading

\* what the outcome o of a call alone puts into details and error of instance
\* h, whose details and error the start of the call left as <<d, e>>
DetailsShown(o, d, e) ==
    IF o.kind = "resolve"
    THEN IF o.data.Response = "False"
         THEN <<Null, Some(DetailsFalseError(o.data))>>
         ELSE <<Some(o.data), e>>
    ELSE IF IsCancel(o)
         THEN <<d, e>>
         ELSE <<Null, Some("Failed to fetch movie details. Please try again.")>>

\* C23: the settlement of a detail call that has been superseded on its
\* instance changes none of details, error and loading of the instance; the
\* settlement of the instance's current call ends loading and leaves in
\* details and error what that call's own outcome gives.
C23_StaleDetailSuppressed ==
    [][ \A f \in Fetchers :
          (detailOp'.name = "settle" /\ detailOp'.f = f)
             => IF detailOp'.req # fetchers[f].abortControllerRef
                THEN fetchers'[f] = fetchers[f]
                ELSE /\ ~fetchers'[f].loading
                     /\ <<fetchers'[f].details, fetchers'[f].error>>
                           = DetailsShown(detailOp'.outcome, fetchers[f].details, Null)
                     /\ fetchers'[f].movieId = fetchers[f].movieId ]_vars

\* fetch A of card1 settled after fetch B of card1 was issued, B is still in
\* flight
C23_Witness ==
    /\ detailOp.name = "settle" /\ detailOp.f = "card1"
    /\ detailOp.req = 1
    /\ fetchers["card1"].abortControllerRef = 2
    /\ fetchers["card1"].loading
    /\ DetailsOutstanding("card1") = {2}

\* C24: when the movieId of an instance becomes null, its details and error
\* become null and no un-aborted call of it stays in flight; no later step,
\* the settlement of the aborted call included, makes details or error
\* non-null while the movieId remains null.
C24_InvalidateClears ==
    [][ \A f \in Fetchers :
          fetchers'[f].movieId = Null
             => /\ fetchers'[f].details = Null
                /\ fetchers'[f].error = Null
                /\ DetailsOutstanding(f)' = {} ]_vars

\* the call aborted by the null movieId has settled, the movieId is still null
C24_Witness ==
    /\ detailOp.name = "settle"
    /\ detailOp.request.aborted
    /\ fetchers[detailOp.f].movieId = Null
    /\ fetchers[detailOp.f].mounted
    /\ fetchers[detailOp.f].abortControllerRef = detailOp.req
    /\ ~fetchers[detailOp.f].loading

-----------------------------------------------------------------------------
(* The cache and the cards (SpecCards) *)

\* the step is a call of addToCache, removeFromCache or clearCache
CacheWrite == cacheOp'.name \in {"add", "remove", "clear"}

\* C25: no step of useMovieDetails (a fetch that starts, succeeds, fails or is
\* cancelled, a movieId that becomes null, an unmount) changes the cache; the
\* cache changes only in calls of addToCache, removeFromCache and clearCache.
C25_FetcherLeavesCache ==
    [][ ~CacheWrite => movieDetailsCache' = movieDetailsCache ]_vars

\* the fetch of tt2 by card1 succeeded while the cache held tt1 only
C25_Witness ==
    /\ DetailSettledCurrent
    /\ detailOp.outcome.kind = "resolve"
    /\ detailOp.outcome.data.Response = "True"
    /\ detailOp.request.id = "tt2"
    /\ fetchers[detailOp.f].details = Some(detailOp.outcome.data)
    /\ getFromCache(detailOp.f, "tt1") # Null
    /\ getFromCache(detailOp.f, "tt2") = Null

\* the step is the call name(k) made through the useMovieCache() of u
CacheCall(name, u, k) ==
    cacheOp'.name = name /\ cacheOp'.u = u /\ cacheOp'.key = k

\* C26: getFromCache(k) returns what the cache holds for k; after
\* addToCache(k, r) that is r, whatever k held before; after
\* removeFromCache(k) it is absent; after clearCache() it is absent for every
\* key; a key is absent at the start and stops being absent only in an
\* addToCache of that key.
C26_MapSemantics ==
    /\ \A u \in CacheUsers : \A k \in MovieIds : getFromCache(u, k) = Null
    /\ [][ \A u \in CacheUsers : \A k \in MovieIds :
             /\ CacheCall("add", u, k) => getFromCache(u, k)' = cacheOp'.record
             /\ CacheCall("remove", u, k) => getFromCache(u, k)' = Null
             /\ CacheCall("clear", u, "") => getFromCache(u, k)' = Null
             /\ CacheCall("get", u, k)
                   => /\ cacheOp'.result = getFromCache(u, k)
                      /\ getFromCache(u, k)' = getFromCache(u, k)
             /\ (getFromCache(u, k) = Null /\ getFromCache(u, k)' # Null)
                   => CacheCall("add", cacheOp'.u, k) ]_vars

\* getFromCache("tt1") returned the record put last for tt1, which is not the
\* record of tt1's own title; tt2 is absent
C26_Witness ==
    /\ cacheOp.name = "get" /\ cacheOp.key = "tt1"
    /\ cacheOp.result = Some(DetailsResponse("True", "tt2", Null))
    /\ getFromCache(cacheOp.u, "tt2") = Null

\* the step is a call that may take the entry of key k away or replace it
Rewrites(k) ==
    \/ cacheOp'.name \in {"add", "remove"} /\ cacheOp'.key = k
    \/ cacheOp'.name = "clear"

\* C27: an entry of the cache stays as it is in every step that is not an
\* addToCache or removeFromCache of its key or a clearCache: calls for other
\* keys, a cache that holds every key, and the steps of the cards keep it.
C27_NoEviction ==
    [][ \A u \in CacheUsers : \A k \in MovieIds :
          (getFromCache(u, k) # Null /\ ~Rewrites(k))
             => getFromCache(u, k)' = getFromCache(u, k) ]_vars

\* every key is held, tt1 with the record put for it, and a card's fetch has
\* failed since
C27_Witness ==
    /\ DetailSettledCurrent
    /\ detailOp.outcome.kind # "resolve"
    /\ getFromCache("card1", "tt1") = Some(DetailsResponse("True", "tt1", Null))
    /\ getFromCache("card1", "tt2") # Null

\* C28: the cache is one store for every useMovieCache(): what a call of
\* addToCache, removeFromCache or clearCache through one instance leaves is
\* what getFromCache returns through every other instance.
C28_OneSharedStore ==
    [][ \A u \in CacheUsers : \A v \in CacheUsers : \A k \in MovieIds :
          /\ CacheCall("add", u, k) => getFromCache(v, k)' = cacheOp'.record
          /\ CacheCall("remove", u, k) => getFromCache(v, k)' = Null
          /\ CacheCall("clear", u, "") => getFromCache(v, k)' = Null
          /\ getFromCache(u, k)' = getFromCache(v, k)' ]_vars

\* card1 has put a record for tt1, card2 gets it
C28_Witness ==
    /\ cacheOp.name = "add" /\ cacheOp.u = "card1" /\ cacheOp.key = "tt1"
    /\ getFromCache("card2", "tt1") = cacheOp.record
    /\ getFromCache("card2", "tt1") # Null

-----------------------------------------------------------------------------
(* The hooks side by side (SpecDomains) *)

\* the calls of instance f, as they stand
RequestsOf(reqs, f) == { <<c, reqs[c]>> : c \in { d \in DOMAIN reqs : reqs[d].f = f } }

\* C29: a step of one useMovieDetails instance (a fetch that starts, replaces
\* another or is aborted, a settlement, an unmount) leaves every other
\* instance's details, error, loading, ref and calls as they are, and leaves
\* the state, the ref and the calls of useDebouncedSearch as they are; a step
\* of useDebouncedSearch leaves every instance and every detail call as they
\* are.
C29_IndependentDomains ==
    [][ /\ \A f \in Fetchers :
             (detailVars' # detailVars /\ detailOp'.f = f)
                => /\ \A g \in Fetchers \ {f} :
                         /\ fetchers'[g] = fetchers[g]
                         /\ RequestsOf(detailRequests', g) = RequestsOf(detailRequests, g)
                   /\ requests' = requests
                   /\ abortControllerRef' = abortControllerRef
                   /\ <<query, results, loading, error, page, hasMore>>'
                         = <<query, results, loading, error, page, hasMore>>
        /\ searchVars' # searchVars
              => /\ fetchers' = fetchers
                 /\ detailRequests' = detailRequests ]_vars

\* card1 let go of its movie and its call was aborted, while the call of
\* card2 and the search call stay in flight, not aborted
C29_Witness ==
    /\ detailOp.name = "setMovieId" /\ detailOp.f = "card1"
    /\ fetchers["card1"].movieId = Null
    /\ fetchers["card1"].abortControllerRef = 1
    /\ DetailsInFlight = {1, 2}
    /\ detailRequests[1].aborted
    /\ DetailsOutstanding("card2") = {2}
    /\ fetchers["card2"].loading
    /\ Outstanding = {1}
    /\ loading

\* the search was torn down and its call aborted while the calls of both cards
\* stay in flight, not aborted
C29_WitnessSearchStep ==
    /\ lastOp.name = "unmount"
    /\ requests # <<>> /\ requests[Len(requests)].aborted
    /\ DetailsOutstanding("card1") = {1}
    /\ DetailsOutstanding("card2") = {2}

-----------------------------------------------------------------------------
\* the step issues a search call
Issues == Len(requests') = Len(requests) + 1

\* C30: page is at least 1; a step that issues a search call for the text that
\* is the query sets page to the page of that call, and while the query stays
\* the same non-blank text a step that issues no call leaves page as it is, so
\* page is the page of the call issued last for the current query.
C30_PageTracksLastRequest ==
    /\ page >= 1
    /\ [][ /\ page' >= 1
           /\ (Issues /\ requests'[Len(requests')].q = query')
                 => page' = requests'[Len(requests')].page
           /\ (~Issues /\ query' = query /\ ~IsBlank(query))
                 => page' = page ]_vars

\* loadMore has issued the call for page 2 of the query after page 1 of it
C30_Witness ==
    /\ lastOp.name = "loadMore" /\ lastOp.req # 0
    /\ requests[lastOp.req].q = query
    /\ requests[lastOp.req].page = 2
    /\ page = 2
    /\ page1Done

-----------------------------------------------------------------------------
\* the call issued by the debounced search is the current one and in flight
InitialLoadInFlight ==
    /\ abortControllerRef \in InFlight
    /\ requests[abortControllerRef].by = "debounce"

\* C31: a firing of the debounced search leaves page 1, hasMore false and
\* the initial-load flag set; while the call it issued is the current one and
\* has not settled, loadMore does nothing.
C31_FiringResets ==
    [][ /\ (FireDue /\ lastOp'.name = "fire")
             => page' = 1 /\ ~hasMore' /\ isInitialLoad'
        /\ InitialLoadInFlight' => ~LoadMoreAllowed' ]_vars

\* the debounced search fired for a new query while the records of the
\* previous one are shown; its call is in flight
C31_Witness ==
    /\ lastOp.name = "fire" /\ lastOp.req # 0
    /\ InitialLoadInFlight /\ abortControllerRef = lastOp.req
    /\ results # Null
    /\ Len(requests) >= 2

-----------------------------------------------------------------------------
\* loading of each hook says that the call of its current controller is in flight
LoadingTracks ==
    /\ loading <=> abortControllerRef \in InFlight
    /\ \A f \in Fetchers :
          fetchers[f].loading <=> fetchers[f].abortControllerRef \in DetailsInFlight

\* C32: in useDebouncedSearch and in each useMovieDetails, loading is true
\* exactly while the call of the current controller, the one issued last, has
\* not settled; the settlement of any other call leaves loading as it is.
C32_LoadingTracksCurrent ==
    /\ LoadingTracks
    /\ [][ /\ LoadingTracks'
           /\ (requests' # requests /\ lastOp'.name = "settle"
                  /\ lastOp'.req # abortControllerRef)
                 => loading' = loading
           /\ \A f \in Fetchers :
                 (detailRequests' # detailRequests /\ detailOp'.name = "settle"
                     /\ detailOp'.f = f /\ detailOp'.req # fetchers[f].abortControllerRef)
                    => fetchers'[f].loading = fetchers[f].loading ]_vars

\* a replaced search call has settled while the call issued last is in flight
C32_Witness ==
    /\ lastOp.name = "settle"
    /\ lastOp.req # abortControllerRef
    /\ abortControllerRef \in InFlight
    /\ loading

\* a replaced detail call has settled while the call issued last is in flight
C32_WitnessDetails ==
    /\ detailOp.name = "settle"
    /\ detailOp.req # fetchers[detailOp.f].abortControllerRef
    /\ fetchers[detailOp.f].abortControllerRef \in DetailsInFlight
    /\ fetchers[detailOp.f].loading

-----------------------------------------------------------------------------
\* C33: in useDebouncedSearch an error is shown only with a null result set
\* and hasMore false; in each useMovieDetails an error is shown only with
\* null details.
C33_ErrorExcludesData ==
    /\ error # Null => (results = Null /\ ~hasMore)
    /\ \A f \in Fetchers : fetchers[f].error # Null => fetchers[f].details = Null

\* a search that failed took away the records that were shown
C33_Witness ==
    /\ lastOp.name = "settle"
    /\ lastOp.prevLen > 0
    /\ error # Null
    /\ results = Null

\* a fetch that failed took away the details that were shown
C33_WitnessDetails ==
    /\ DetailSettledCurrent
    /\ fetchers[detailOp.f].error # Null
    /\ detailOp.req = 2
    /\ fetchers[detailOp.f].details = Null

-----------------------------------------------------------------------------
\* C34: hasMore is true only with a result set that holds at least one record.
C34_HasMoreNeedsRecords ==
    hasMore => (results # Null /\ Len(SearchOf(results)) >= 1)

\* the query has changed and its search has not fired yet: hasMore is still
\* true, over the records of the previous query
C34_Witness ==
    /\ hasMore
    /\ lastOp.name = "setQuery"
    /\ timerPending
    /\ Len(SearchOf(results)) >= 1

-----------------------------------------------------------------------------
(* The user stops (SpecQuiet) *)

\* nothing is loading, and either page 1 of the query is shown, exactly its
\* records, or an error is shown with no result set
ComesToRest ==
    /\ ~loading
    /\ query \in SearchTexts
    /\ \/ error = Null /\ results = Some(PageOf(query, 1, catalog[1][query]))
       \/ error # Null /\ results = Null

\* C35: once the user has stopped with a non-blank query q and no loadMore
\* follows, the hook comes to rest: from some point on loading is false and
\* either exactly page 1 of q is shown or an error is shown with a null result
\* set; from the stop on no un-aborted call for another text is in flight and
\* no settlement of a call for another text is applied.
C35_EventuallyConsistent ==
    /\ [](quiet => <>[]ComesToRest)
    /\ [](quiet => \A c \in Outstanding : requests[c].q = query)
    /\ [][ (quiet /\ lastOp'.name = "settle" /\ requests' # requests
               /\ <<results, error, hasMore>>' # <<results, error, hasMore>>)
             => lastOp'.request.q = query ]_vars

\* the user has stopped at "b" while the records of "a" are shown and the
\* search for "b" has not fired
C35_Witness ==
    /\ quiet
    /\ query = <<"b">>
    /\ timerPending
    /\ Len(SearchOf(results)) >= 1
    /\ results # Some(PageOf(query, 1, catalog[1][query]))

\* the hook has come to rest on page 1 of the query the user stopped at
C35_WitnessRest ==
    /\ quiet
    /\ ComesToRest
    /\ error = Null
    /\ lastOp.name = "settle"
    /\ Len(requests) >= 2

-----------------------------------------------------------------------------
\* what the claim asks of the message shown for the Error e of a Response
\* "False" body that is not the rate-limit one, on a path with this fallback
RemoteOrFallback(e, message, fallback) ==
    /\ (e # Null /\ e # Some(RateLimitError)) => message = e
    /\ e = Null => message = Some(fallback)

\* C36: right after the current call resolved with Response "False" and an
\* Error other than "Request limit reached!", error is that Error string as
\* the remote sent it, on the search path and on the detail path; without an
\* Error it is 'No results found' on the search path and 'Failed to fetch
\* movie details' on the detail path.
C36_RemoteMessageOrFallback ==
    /\ (SettledCurrent /\ lastOp.outcome.kind = "resolve"
           /\ lastOp.outcome.data.Response = "False")
          => RemoteOrFallback(lastOp.outcome.data.Error, error, "No results found")
    /\ (DetailSettledCurrent /\ detailOp.outcome.kind = "resolve"
           /\ detailOp.outcome.data.Response = "False")
          => RemoteOrFallback(detailOp.outcome.data.Error, fetchers[detailOp.f].error,
                              "Failed to fetch movie details")

\* a detail fetch was answered with Response "False" and no Error
C36_Witness ==
    /\ DetailSettledCurrent
    /\ detailOp.outcome.kind = "resolve"
    /\ detailOp.outcome.data.Response = "False"
    /\ detailOp.outcome.data.Error = Null
    /\ fetchers[detailOp.f].error = Some("Failed to fetch movie details")

\* a search was answered with Response "False" and the remote's own Error
C36_WitnessSearch ==
    /\ SettledCurrent
    /\ lastOp.outcome.kind = "resolve"
    /\ lastOp.outcome.data.Response = "False"
    /\ lastOp.outcome.data.Error = Some("Movie not found!")
    /\ error = Some("Movie not found!")

-----------------------------------------------------------------------------
(* The cards under the mouse (SpecHover) *)

\* the calls of card f that have been aborted and have not settled yet
DetailsAborted(reqs, f) == { c \in DOMAIN reqs : reqs[c].f = f /\ reqs[c].aborted }

\* C37: after a mouse-enter the card is hovered and the movieId of its
\* useMovieDetails is the movie's id; the card leaves the hovered state only
\* in the timeout of a mouse-leave, 100 ms after that mouse-leave and with no
\* mouse-enter in those 100 ms; while the card stays hovered (a mouse-leave
\* followed by a mouse-enter before the timeout included) the movieId stays,
\* no call of the card is aborted and no new call is issued for it; at most
\* one timeout of a card is pending, the one its ref holds.
C37_HoverHysteresis ==
    [][ \A f \in Fetchers :
          /\ cards'[f].event = "enter"
                => /\ cards'[f].isHovered
                   /\ fetchers'[f].movieId = Some(MovieOf(f))
          /\ (cards[f].isHovered /\ ~cards'[f].isHovered)
                => /\ cards'[f].event = "timeout"
                   /\ cards[f].sinceLeave = HoverDelay
                   /\ cards[f].sinceEnter = HoverDelay
                   /\ fetchers'[f].movieId = Null
          /\ (cards[f].isHovered /\ cards'[f].isHovered)
                => /\ fetchers'[f].movieId = fetchers[f].movieId
                   /\ DetailsAborted(detailRequests', f) \subseteq DetailsAborted(detailRequests, f)
                   /\ \A c \in DOMAIN detailRequests' \ DOMAIN detailRequests :
                         detailRequests'[c].f # f
          /\ Len(cards'[f].timeouts) <= 1
          /\ cards'[f].hoverTimeoutRef <=> Len(cards'[f].timeouts) = 1 ]_vars

\* the mouse left the hovered card1 and came back before the timeout: the
\* card is hovered, no timeout is pending, the render issued no call and the
\* one call of the card is still in flight, not aborted
C37_Witness ==
    /\ cards["card1"].event = "enter"
    /\ cards["card1"].sinceLeave < HoverDelay
    /\ cards["card1"].sinceEnter < cards["card1"].sinceLeave
    /\ cards["card1"].isHovered
    /\ cards["card1"].timeouts = <<>>
    /\ DetailsOutstanding("card1") = {1}
    /\ Len(detailRequests) = 1
    /\ detailOp.name = "setMovieId" /\ detailOp.f = "card1" /\ detailOp.req = 0

\* the timeout of card1 ran 100 ms after the mouse left: the card is not
\* hovered and its call has been aborted
C37_WitnessTimeout ==
    /\ cards["card1"].event = "timeout"
    /\ ~cards["card1"].isHovered
    /\ fetchers["card1"].movieId = Null
    /\ DetailsAborted(detailRequests, "card1") = {1}

-----------------------------------------------------------------------------
(* StarRating (SpecStars) *)

\* what a rating that is meant to be t tenths may be written as
WrittenAs(t) ==
    {Some(RatingText(t))} \cup (IF t % 10 = 0 /\ t >= 0 THEN {Some(WholeText(t \div 10))} ELSE {})

HalfCount(s) == IF s.hasHalfStar THEN 1 ELSE 0

\* C38: once rendered, a rating of t tenths, 0.0 to 10.0, shows floor(t/10)
\* full stars and a half star exactly when its fractional part is at least
\* 0.5; full, half and empty stars are 10 together and no count is negative;
\* a missing, empty or "N/A" rating shows 0 full stars, no half star and 10
\* empty ones; a rating below 0 shows what 0 shows and a rating above 10 what
\* 10 shows.
C38_StarCounts ==
    stars # Null =>
        LET s == stars[1] IN
        /\ \A t \in 0..100 :
              rating \in WrittenAs(t) =>
                  /\ s.fullStars = t \div 10
                  /\ s.hasHalfStar <=> (t % 10) >= 5
                  /\ s.fullStars + HalfCount(s) + s.emptyStars = 10
                  /\ s.fullStars >= 0
                  /\ s.emptyStars >= 0
        /\ rating \in {Null, Some(<<>>), Some(NA)} =>
              s = Stars(0, FALSE, 10)
        /\ \A t \in BelowRange : rating \in WrittenAs(t) => s = Stars(0, FALSE, 10)
        /\ \A t \in AboveRange : rating \in WrittenAs(t) => s = Stars(10, FALSE, 0)

\* "7.5" is rendered as 7 full stars, a half star and 2 empty ones
C38_Witness ==
    /\ rating = Some(<<"7", ".", "5">>)
    /\ stars = Some(Stars(7, TRUE, 2))

\* "11.7" is rendered as 10 full stars
C38_WitnessClamped ==
    /\ rating = Some(<<"1", "1", ".", "7">>)
    /\ stars = Some(Stars(10, FALSE, 0))

\* "N/A" is rendered as 10 empty stars
C38_WitnessNA ==
    /\ rating = Some(NA)
    /\ stars = Some(Stars(0, FALSE, 10))

====
